---- MODULE Spec2Model ----
(***************************************************************************)
(* Access-Query: data-range extraction (content.py) and the query classes  *)
(* built on it (query.py).                                                 *)
(*                                                                         *)
(* Numbers.  Samples are fixed-point numbers in hundredths: the integer    *)
(* 134 stands for 1.34.  RPM values are kept as plain integers.            *)
(* float('inf') is the integer Inf, larger than every sample.  A cell that *)
(* the scraped HTML table does not hold is delivered by pandas as NaN in   *)
(* the (always rectangular) matrix DataFrame.values; NaN is the integer    *)
(* NaN, and the comparisons Gt and Lt are false whenever an operand is NaN *)
(* as they are for Python floats.                                          *)
(*                                                                         *)
(* Sequences are 1-based here and 0-based in the source: column 1 is RPM.  *)
(***************************************************************************)
EXTENDS Integers, Sequences, FiniteSets, TLC

\* ------------------------------------------------------------------ bounds
\* Most rows of a table fetched for a DataRange / MinData / MaxData query.
MaxRows == 2
\* Most rows of each of the two tables fetched for a Comparison query.
MaxCmpRows == 1

\* --------------------------------------------------------------- constants
Inf == 1000000
NaN == -1000000

\* Sample values (hundredths): one negative, and two that differ only beyond
\* the first decimal (126 rounds up to 130, 134 rounds down to 130).  None
\* ends in 5, where the result of '{0:0.1f}' depends on the binary
\* representation of the float.
Samples == {-126, 126, 134}
Cells == Samples \cup {NaN}
\* Cells of the tables fetched for a Comparison: three distinct maxima
\* (0 when a column holds no sample, 1.3 and 2.5).
CmpCells == {NaN, 126, 250}

\* Column headers a fetched table can have (data[1].keys()).
Headers == {<<"RPM", "HP">>, <<"RPM", "HP", "Torque">>}

\* dataset.valid_entries: the keys that resolve to a table id.
valid_entries == {"A", "B"}
\* Entries a caller may pass to DataRange, MinData and MaxData (one that
\* resolves, one that does not) and to Comparison.
Entries == {"A", "Z"}
CmpEntries == valid_entries \cup {"Z"}

\* Attribute lists a caller may pass to Comparison.
AttrLists == {<<>>, <<"HP">>, <<"Torque", "HP">>, <<"HP", "Boost", "HP">>}

NoException == "none"
InvalidEntry == "Invalid entry."
IndexError == "IndexError"
\* Whatever pd.read_html raises when the fetch or the parse fails.
ReadHtmlError == "read_html error"

\* RPM of the r-th sampled row.
RpmOf(r) == 1000 * r

\* The tables pd.read_html can deliver with at most n rows: a header and a
\* rectangular matrix whose column 1 is RPM and whose other cells are drawn
\* from cells (a sample or NaN).
TablesUpTo(n, cells) ==
  { [header |-> h,
     values |-> [i \in 1..r |-> [j \in 1..Len(h) |->
                    IF j = 1 THEN RpmOf(i) ELSE f[i][j]]]] :
      <<h, r, f>> \in
        UNION { UNION { { <<hh, rr, ff>> :
                           ff \in [1..rr -> [2..Len(hh) -> cells]] } :
                        rr \in 0..n } : hh \in Headers } }

\* ------------------------------------------------------------ float model
Gt(a, b) == a # NaN /\ b # NaN /\ a > b

\* Lt as it would be if a missing cell were an ordinary (very small) number.
LtNum(a, b) == a < b

Lt(a, b) == a # NaN /\ b # NaN /\ a < b

\* float('{0:0.1f}'.format(v)): v rounded to one decimal (a multiple of 10
\* hundredths), to nearest, an exact tie to the even tenth.
Round1(v) ==
  LET q == v \div 10
      r == v % 10
  IN  IF r < 5 THEN 10 * q
      ELSE IF r > 5 THEN 10 * (q + 1)
      ELSE IF q % 2 = 0 THEN 10 * q ELSE 10 * (q + 1)

\* ------------------------------------------------------------- DataParser
get_performance_attrs(header) == Tail(header)

Range(s) == {s[i] : i \in DOMAIN s}

initialize_data_range_container(perf) ==
  [key \in Range(perf) |-> [min |-> <<Inf, Inf>>, max |-> <<0, 0>>]]

\* UpdateCell with the second "if" written "elif": the minimum is looked at
\* only when the maximum was not updated.
UpdateCellElif(values, row, col, rng) ==
  IF col > Len(values[row]) THEN rng
  ELSE
    LET cell == values[row][col]
    IN  IF Gt(cell, rng.max[1])
        THEN [rng EXCEPT !.max = <<Round1(cell), values[row][1]>>]
        ELSE IF Lt(cell, rng.min[1])
        THEN [rng EXCEPT !.min = <<Round1(cell), values[row][1]>>]
        ELSE rng

\* UpdateCell with the comparison against the recorded maximum reversed.
UpdateCellMaxLt(values, row, col, rng) ==
  IF col > Len(values[row]) THEN rng
  ELSE
    LET cell == values[row][col]
        r1 == IF Lt(cell, rng.max[1])
              THEN [rng EXCEPT !.max = <<Round1(cell), values[row][1]>>]
              ELSE rng
    IN  IF Lt(cell, r1.min[1])
        THEN [r1 EXCEPT !.min = <<Round1(cell), values[row][1]>>]
        ELSE r1

\* The body of the inner loop of get_data_range for one cell: the try block
\* and its except IndexError: continue (a row too short to hold column col;
\* the rows of DataFrame.values all have the length of the header, so this
\* branch is not taken for a fetched table).  rng is
\* data[dict_index[col - 1]].
UpdateCell(values, row, col, rng) ==
  IF col > Len(values[row]) THEN rng
  ELSE
    LET cell == values[row][col]
        r1 == IF Gt(cell, rng.max[1])
              THEN [rng EXCEPT !.max = <<Round1(cell), values[row][1]>>]
              ELSE rng
    IN  IF Lt(cell, r1.min[1])
        THEN [r1 EXCEPT !.min = <<Round1(cell), values[row][1]>>]
        ELSE r1

RECURSIVE ScanRows(_, _, _, _)
\* for row in range(len(self._values)), from row on.
ScanRows(values, col, row, rng) ==
  IF row > Len(values) THEN rng
  ELSE ScanRows(values, col, row + 1, UpdateCell(values, row, col, rng))

RECURSIVE ScanCols(_, _, _, _)
\* for col in range(1, len(self._values[0])), from col on.
ScanCols(values, dict_index, col, data) ==
  IF col > Len(values[1]) THEN data
  ELSE ScanCols(values, dict_index, col + 1,
         [data EXCEPT ![dict_index[col - 1]] = ScanRows(values, col, 1, @)])

\* get_data_range: the exception it raises and the container it leaves
\* (which is also what it returns).  len(self._values[0]) is evaluated
\* outside the try block, so a matrix without rows raises IndexError.
get_data_range(values, perf, data) ==
  IF Len(values) = 0
  THEN [raised |-> IndexError, data |-> data]
  ELSE [raised |-> NoException, data |-> ScanCols(values, perf, 2, data)]

\* ------------------------------------------------------------------ Query
\* A dict is a sequence of <<key, value>> pairs in insertion order.
HasKey(d, k) == \E i \in DOMAIN d : d[i][1] = k
Get(d, k) == d[CHOOSE i \in DOMAIN d : d[i][1] = k][2]

\* Query.generate_result after its call of get_data_range: data is the
\* container that call returned, whose keys are perf in this order.
generate_result(value, perf, data) ==
  IF value = "min" THEN [i \in DOMAIN perf |-> <<perf[i], data[perf[i]].min>>]
  ELSE IF value = "max" THEN [i \in DOMAIN perf |-> <<perf[i], data[perf[i]].max>>]
  ELSE data

\* namedtuple('Min<attr>', [attr, 'RPM']) / namedtuple('Max<attr>', ...).
namedtuple(typename, attr, pair) ==
  [typename |-> typename, fields |-> <<attr, "RPM">>, values |-> pair]

RECURSIVE DataRange_build_result_MaxFirst(_, _, _)
\* DataRange.build_result appending the maximum before the minimum.
DataRange_build_result_MaxFirst(perf, data, i) ==
  IF i > Len(perf) THEN <<>>
  ELSE LET attr == perf[i]
           min_payload == namedtuple("Min" \o attr, attr, data[attr].min)
           max_payload == namedtuple("Max" \o attr, attr, data[attr].max)
       IN  <<max_payload, min_payload>>
             \o DataRange_build_result_MaxFirst(perf, data, i + 1)

RECURSIVE DataRange_build_result(_, _, _)
\* DataRange.build_result: for i in range(len(self.perf_attrs)), from i on.
DataRange_build_result(perf, data, i) ==
  IF i > Len(perf) THEN <<>>
  ELSE LET attr == perf[i]
           min_payload == namedtuple("Min" \o attr, attr, data[attr].min)
           max_payload == namedtuple("Max" \o attr, attr, data[attr].max)
       IN  <<min_payload, max_payload>> \o DataRange_build_result(perf, data, i + 1)

\* s[::2] and s[1::2].
EvenSlice(s) == [i \in 1..((Len(s) + 1) \div 2) |-> s[2 * i - 1]]
OddSlice(s) == [i \in 1..(Len(s) \div 2) |-> s[2 * i]]

\* DataRange.search, MinData.search, MaxData.search on the container that
\* generate_result() returned.
search(k, perf, data) ==
  LET built == DataRange_build_result(perf, generate_result("None", perf, data), 1)
  IN  IF k = "MinData" THEN EvenSlice(built)
      ELSE IF k = "MaxData" THEN OddSlice(built)
      ELSE built

\* CompareAttr with ">=" for ">" in the first test.
CompareAttrGe(entry_id, other_id, attr, lhs, rhs) ==
  IF ~HasKey(lhs, attr) \/ ~HasKey(rhs, attr)
  THEN attr \o " data not available for this comparison."
  ELSE LET first_operand == Get(lhs, attr)[1]
           second_operand == Get(rhs, attr)[1]
       IN  IF ~Lt(first_operand, second_operand) THEN attr \o ": " \o entry_id
           ELSE IF Gt(second_operand, first_operand) THEN attr \o ": " \o other_id
           ELSE attr \o ": Equal"

\* CompareAttr without its second test: whatever is not greater loses.
CompareAttrNoTie(entry_id, other_id, attr, lhs, rhs) ==
  IF ~HasKey(lhs, attr) \/ ~HasKey(rhs, attr)
  THEN attr \o " data not available for this comparison."
  ELSE LET first_operand == Get(lhs, attr)[1]
           second_operand == Get(rhs, attr)[1]
       IN  IF Gt(first_operand, second_operand) THEN attr \o ": " \o entry_id
           ELSE attr \o ": " \o other_id

\* One pass of the loop of Comparison.build_result: the line for attr.
CompareAttr(entry_id, other_id, attr, lhs, rhs) ==
  IF ~HasKey(lhs, attr) \/ ~HasKey(rhs, attr)
  THEN attr \o " data not available for this comparison."
  ELSE LET first_operand == Get(lhs, attr)[1]
           second_operand == Get(rhs, attr)[1]
       IN  IF Gt(first_operand, second_operand) THEN attr \o ": " \o entry_id
           ELSE IF Gt(second_operand, first_operand) THEN attr \o ": " \o other_id
           ELSE attr \o ": Equal"

Comparison_build_result(entry_id, other_id, attrs, lhs, rhs) ==
  [i \in DOMAIN attrs |-> CompareAttr(entry_id, other_id, attrs[i], lhs, rhs)]

\* ------------------------------------------------------------ ContentLoader
\* get_content_index: the exception raised for an entry.
get_content_index(e) ==
  IF e \in valid_entries THEN NoException ELSE InvalidEntry

\* ------------------------------------------------------------------- state
VARIABLES
  kind,         \* class of the query object, "none" when there is none
  pc,           \* "none", "rhs" (Comparison.__init__ before Query(other)), "ready"
  entry,        \* self._entry
  other,        \* self._other
  attr_list,    \* self._attr_list
  values,       \* self._values
  perf_attrs,   \* self.perf_attrs
  data_range,   \* self.data_range
  lhs_operand,  \* self._lhs_operand
  rhs_operand,  \* self._rhs_operand
  result,       \* what the last call returned, <<>> when it raised
  raised,       \* the exception the last call raised
  last,         \* the last call: <<name>> or <<name, argument>>
  first,        \* the container the first returning get_data_range returned,
                \* and whether get_data_range has returned again since
  fault         \* why the last construction could not load its content

vars == <<kind, pc, entry, other, attr_list, values, perf_attrs, data_range,
          lhs_operand, rhs_operand, result, raised, last, first, fault>>

NoObject ==
  /\ kind = "none" /\ pc = "none" /\ entry = "" /\ other = ""
  /\ attr_list = <<>> /\ values = <<>> /\ perf_attrs = <<>>
  /\ data_range = <<>> /\ lhs_operand = <<>> /\ rhs_operand = <<>>
  /\ first = [set |-> FALSE, val |-> <<>>, again |-> FALSE]

Init ==
  /\ NoObject
  /\ result = <<>> /\ raised = NoException /\ last = <<"none">> /\ fault = "none"

\* A constructor that raises leaves no object behind.
Fails(exc, why) ==
  /\ kind' = "none" /\ pc' = "none" /\ entry' = "" /\ other' = ""
  /\ attr_list' = <<>> /\ values' = <<>> /\ perf_attrs' = <<>>
  /\ data_range' = <<>> /\ lhs_operand' = <<>> /\ rhs_operand' = <<>>
  /\ first' = [set |-> FALSE, val |-> <<>>, again |-> FALSE]
  /\ result' = <<>> /\ raised' = exc /\ last' = <<"init">> /\ fault' = why

\* DataRange(e), MinData(e), MaxData(e): ContentLoader.__init__ and
\* DataParser.__init__.
Construct(k, e) ==
  /\ kind = "none"
  /\ \/ /\ get_content_index(e) # NoException
        /\ Fails(get_content_index(e), "unresolved")
     \/ /\ get_content_index(e) = NoException
        /\ Fails(ReadHtmlError, "fetch")
     \/ /\ get_content_index(e) = NoException
        /\ \E t \in TablesUpTo(MaxRows, Cells) :
             /\ kind' = k /\ pc' = "ready" /\ entry' = e
             /\ values' = t.values
             /\ perf_attrs' = get_performance_attrs(t.header)
             /\ data_range' =
                  initialize_data_range_container(get_performance_attrs(t.header))
             /\ result' = <<>> /\ raised' = NoException
             /\ last' = <<"init">> /\ fault' = "none"
             /\ UNCHANGED <<other, attr_list, lhs_operand, rhs_operand, first>>

\* The part every call of get_data_range has in common.
Scanned(r) ==
  /\ data_range' = r.data
  /\ raised' = r.raised
  /\ first' = IF r.raised # NoException THEN first
              ELSE IF ~first.set
              THEN [set |-> TRUE, val |-> r.data, again |-> FALSE]
              ELSE [first EXCEPT !.again = TRUE]
  /\ UNCHANGED <<kind, pc, entry, other, attr_list, values, perf_attrs,
                 lhs_operand, rhs_operand, fault>>

GetDataRange ==
  /\ kind \in {"DataRange", "MinData", "MaxData"} /\ pc = "ready"
  /\ \E r \in {get_data_range(values, perf_attrs, data_range)} :
         /\ Scanned(r)
         /\ result' = IF r.raised = NoException THEN r.data ELSE <<>>
         /\ last' = <<"get_data_range">>

GenerateResult(value) ==
  /\ kind \in {"DataRange", "MinData", "MaxData"} /\ pc = "ready"
  /\ \E r \in {get_data_range(values, perf_attrs, data_range)} :
         /\ Scanned(r)
         /\ result' = IF r.raised = NoException
                      THEN generate_result(value, perf_attrs, r.data) ELSE <<>>
         /\ last' = <<"generate_result", value>>

Search ==
  /\ kind \in {"DataRange", "MinData", "MaxData"} /\ pc = "ready"
  /\ \E r \in {get_data_range(values, perf_attrs, data_range)} :
         /\ Scanned(r)
         /\ result' = IF r.raised = NoException
                      THEN search(kind, perf_attrs, r.data) ELSE <<>>
         /\ last' = <<"search">>

Next ==
  \/ \E k \in {"DataRange", "MinData", "MaxData"}, e \in Entries : Construct(k, e)
  \/ GetDataRange
  \/ \E value \in {"min", "max", "None"} : GenerateResult(value)
  \/ Search

Spec == Init /\ [][Next]_vars

\* Comparison(e, o, attrs), up to and including
\* self._lhs_operand = self.generate_result('max').
CompInitLhs(e, o, attrs) ==
  /\ kind = "none"
  /\ \/ /\ get_content_index(e) # NoException
        /\ Fails(get_content_index(e), "unresolved")
     \/ /\ get_content_index(e) = NoException
        /\ Fails(ReadHtmlError, "fetch")
     \/ /\ get_content_index(e) = NoException
        /\ \E t \in TablesUpTo(MaxCmpRows, CmpCells) :
           \E r \in {get_data_range(t.values, get_performance_attrs(t.header),
                       initialize_data_range_container(
                         get_performance_attrs(t.header)))} :
             \/ /\ r.raised # NoException
                /\ Fails(r.raised, "none")
             \/ /\ r.raised = NoException
                /\ kind' = "Comparison" /\ pc' = "rhs"
                /\ entry' = e /\ other' = o /\ attr_list' = attrs
                /\ values' = t.values
                /\ perf_attrs' = get_performance_attrs(t.header)
                /\ data_range' = r.data
                /\ first' = [set |-> TRUE, val |-> r.data, again |-> FALSE]
                /\ lhs_operand' =
                     generate_result("max", get_performance_attrs(t.header), r.data)
                /\ result' = <<>> /\ raised' = NoException
                /\ last' = <<"init">> /\ fault' = "none"
                /\ UNCHANGED rhs_operand

\* The rest of Comparison.__init__:
\* self._rhs_operand = Query(self._other).generate_result('max').
CompInitRhs ==
  /\ kind = "Comparison" /\ pc = "rhs"
  /\ \/ /\ get_content_index(other) # NoException
        /\ Fails(get_content_index(other), "unresolved")
     \/ /\ get_content_index(other) = NoException
        /\ Fails(ReadHtmlError, "fetch")
     \/ /\ get_content_index(other) = NoException
        /\ \E t \in TablesUpTo(MaxCmpRows, CmpCells) :
           \E r \in {get_data_range(t.values, get_performance_attrs(t.header),
                       initialize_data_range_container(
                         get_performance_attrs(t.header)))} :
             \/ /\ r.raised # NoException
                /\ Fails(r.raised, "none")
             \/ /\ r.raised = NoException
                /\ pc' = "ready"
                /\ rhs_operand' =
                     generate_result("max", get_performance_attrs(t.header), r.data)
                /\ result' = <<>> /\ raised' = NoException
                /\ last' = <<"init">> /\ fault' = "none"
                /\ UNCHANGED <<kind, entry, other, attr_list, values, perf_attrs,
                               data_range, lhs_operand, first>>

\* Comparison.search.
CompSearch ==
  /\ kind = "Comparison" /\ pc = "ready"
  /\ result' = Comparison_build_result(entry, other, attr_list,
                                       lhs_operand, rhs_operand)
  /\ raised' = NoException
  /\ last' = <<"search">>
  /\ UNCHANGED <<kind, pc, entry, other, attr_list, values, perf_attrs,
                 data_range, lhs_operand, rhs_operand, first, fault>>

NextCmp ==
  \/ \E e \in CmpEntries, o \in CmpEntries, attrs \in AttrLists :
       CompInitLhs(e, o, attrs)
  \/ CompInitRhs
  \/ CompSearch

SpecCmp == Init /\ [][NextCmp]_vars

\* ======================================================== claim vocabulary
\* Column (1-based, RPM is 1) of the attribute a of the loaded table.
ColOf(a) == 1 + CHOOSE j \in DOMAIN perf_attrs : perf_attrs[j] = a

\* Rows of the loaded table whose cell in column col holds a sample.
PresentRows(col) == {i \in DOMAIN values : values[i][col] # NaN}
PresentSamples(col) == {values[i][col] : i \in PresentRows(col)}

Largest(S) == CHOOSE v \in S : \A w \in S : w <= v
Smallest(S) == CHOOSE v \in S : \A w \in S : v <= w

IsRangeQuery == kind \in {"DataRange", "MinData", "MaxData"}
\* get_data_range has been called (directly or through generate_result or
\* search) as the last operation.
ScanWasLast == IsRangeQuery /\ last[1] \in {"get_data_range", "generate_result", "search"}
\* get_data_range has returned on this object; first.val is what its first
\* call returned.
Extracted == IsRangeQuery /\ first.set

Sentinel == [min |-> <<Inf, Inf>>, max |-> <<0, 0>>]

\* C1: after extraction, for every attribute with a present sample, max.value
\* is the largest present sample rounded to one decimal and max.atRpm the RPM
\* of a row holding it; min.value is the smallest present sample rounded and
\* min.atRpm the RPM of a row holding it.
C1_ExtremaExact ==
  Extracted =>
    \A a \in DOMAIN first.val :
      LET col == ColOf(a)
          S == PresentSamples(col)
          rec == first.val[a]
      IN  S # {} =>
            /\ rec.max[1] = Round1(Largest(S))
            /\ \E i \in PresentRows(col) :
                 values[i][col] = Largest(S) /\ values[i][1] = rec.max[2]
            /\ rec.min[1] = Round1(Smallest(S))
            /\ \E i \in PresentRows(col) :
                 values[i][col] = Smallest(S) /\ values[i][1] = rec.min[2]

\* C2: when two or more rows of a column hold the same extremal sample, the
\* RPM recorded for that extremum (once one has been recorded over the
\* sentinel) is the RPM of the earliest such row.
C2_EarliestRowWins ==
  Extracted =>
    \A a \in DOMAIN first.val :
      LET col == ColOf(a)
          S == PresentSamples(col)
          rec == first.val[a]
          atMax == {i \in PresentRows(col) : values[i][col] = Largest(S)}
          atMin == {i \in PresentRows(col) : values[i][col] = Smallest(S)}
      IN  S # {} =>
            /\ (Cardinality(atMax) >= 2 /\ rec.max # Sentinel.max) =>
                 rec.max[2] = values[Smallest(atMax)][1]
            /\ (Cardinality(atMin) >= 2 /\ rec.min # Sentinel.min) =>
                 rec.min[2] = values[Smallest(atMin)][1]

\* Every attribute of the loaded table has at least one present sample.
EveryAttrSampled ==
  \A a \in Range(perf_attrs) : PresentSamples(ColOf(a)) # {}

\* C3: when every attribute has at least one present sample, every attribute
\* of the container get_data_range returns has min.value <= max.value.
C3_MinLeMax ==
  (Extracted /\ EveryAttrSampled) =>
    \A a \in DOMAIN data_range : data_range[a].min[1] <= data_range[a].max[1]

\* C3 witness: an extracted two-attribute table, every attribute sampled, whose
\* first row lacks a cell and which holds a negative sample.
C3_Witness ==
  /\ Extracted /\ EveryAttrSampled /\ Len(perf_attrs) = 2
  /\ \E a \in Range(perf_attrs) : values[1][ColOf(a)] = NaN
  /\ \E a \in Range(perf_attrs) : \E v \in PresentSamples(ColOf(a)) : v < 0

\* C4: for a table with R >= 0 rows, get_data_range returns without raising
\* and every attribute without a present sample keeps the sentinel range.
C4_SentinelNoCrash ==
  ScanWasLast =>
    /\ raised = NoException
    /\ \A a \in Range(perf_attrs) :
         PresentSamples(ColOf(a)) = {} => data_range[a] = Sentinel

\* C5: every later call of get_data_range on the same object returns the
\* container the first call returned.
C5_Idempotent ==
  (ScanWasLast /\ first.set /\ raised = NoException) =>
    /\ data_range = first.val
    /\ last = <<"get_data_range">> => result = first.val

\* C5 witness: get_data_range has returned at least twice on a table with two
\* rows whose samples are stored rounded.
C5_Witness ==
  /\ Extracted /\ first.again /\ last = <<"get_data_range">>
  /\ Len(values) >= 2 /\ Len(perf_attrs) >= 1
  /\ values[1][2] = 126 /\ values[2][2] = 134

\* The keys and the pairs of a sequence of namedtuples.
Payloads(seq) == [i \in DOMAIN seq |-> <<seq[i].fields[1], seq[i].values>>]

\* C6: the sequence DataRange.search returns has two elements per attribute,
\* the min pair then the max pair, in column order; MinData.search is
\* generate_result('min') and MaxData.search generate_result('max'),
\* attribute by attribute in the same order.
C6_Interleaving ==
  (IsRangeQuery /\ last = <<"search">> /\ raised = NoException) =>
    LET again == get_data_range(values, perf_attrs, data_range).data
    IN  /\ kind = "DataRange" =>
             /\ Len(result) = 2 * Len(perf_attrs)
             /\ \A i \in DOMAIN perf_attrs :
                  /\ result[2 * i - 1].values = data_range[perf_attrs[i]].min
                  /\ result[2 * i].values = data_range[perf_attrs[i]].max
        /\ kind = "MinData" =>
             Payloads(result) = generate_result("min", perf_attrs, again)
        /\ kind = "MaxData" =>
             Payloads(result) = generate_result("max", perf_attrs, again)

\* C6 witness: MinData.search has returned for a two-attribute table in which
\* the minimum and the maximum of an attribute differ.
C6_Witness ==
  /\ kind = "MinData" /\ last = <<"search">> /\ raised = NoException
  /\ Len(perf_attrs) = 2 /\ Len(result) = 2
  /\ data_range["HP"].min # data_range["HP"].max

\* The line the claim gives for attr, from the two max-projections.
KeysOf(d) == {d[i][1] : i \in DOMAIN d}
ValueOf(d, k) == Largest({d[i][2][1] : i \in {j \in DOMAIN d : d[j][1] = k}})
VerdictLine(attr) ==
  IF attr \notin KeysOf(lhs_operand) \cap KeysOf(rhs_operand)
  THEN attr \o " data not available for this comparison."
  ELSE IF ValueOf(lhs_operand, attr) > ValueOf(rhs_operand, attr)
  THEN attr \o ": " \o entry
  ELSE IF ValueOf(lhs_operand, attr) < ValueOf(rhs_operand, attr)
  THEN attr \o ": " \o other
  ELSE attr \o ": Equal"

\* C7: Comparison.search returns one line per element of attrs, and line i is
\* the verdict for attrs[i] alone: not available, the first entry, the second
\* entry, or Equal.
C7_VerdictLines ==
  (kind = "Comparison" /\ last = <<"search">>) =>
    /\ raised = NoException
    /\ Len(result) = Len(attr_list)
    /\ \A i \in DOMAIN attr_list : result[i] = VerdictLine(attr_list[i])

\* C7 witness: a verdict for a list with a duplicate and an attribute neither
\* side has, where the second entry wins the duplicated attribute.
C7_Witness ==
  /\ kind = "Comparison" /\ last = <<"search">>
  /\ attr_list = <<"HP", "Boost", "HP">>
  /\ result = <<"HP: " \o other, "Boost data not available for this comparison.",
                "HP: " \o other>>
  /\ entry # other

\* C8: comparing (A, maxA, B, maxB) and (B, maxB, A, maxA) gives the same
\* lines: the winner is named identically, Equal and not-available lines stay.
C8_Symmetry ==
  (kind = "Comparison" /\ last = <<"search">>) =>
    result = Comparison_build_result(other, entry, attr_list,
                                     rhs_operand, lhs_operand)

\* C8 witness: a verdict between two different entries with a winner line, an
\* Equal line or a not-available line beside it.
C8_Witness ==
  /\ kind = "Comparison" /\ last = <<"search">>
  /\ entry = "A" /\ other = "B"
  /\ attr_list = <<"Torque", "HP">>
  /\ result[1] \in {"Torque: Equal", "Torque data not available for this comparison."}
  /\ result[2] = "HP: A"

\* C9: a construction whose entry does not resolve, or whose fetch fails,
\* fails with the invalid-entry condition, leaves no query object and returns
\* nothing.
C9_InvalidEntryOnFailure ==
  fault # "none" =>
    /\ raised = InvalidEntry
    /\ kind = "none"
    /\ result = <<>>

\* The rows of the loaded table that hold a sample in column col, in order.
WithoutMissing(col) == SelectSeq(values, LAMBDA row : row[col] # NaN)

\* C10: a missing cell raises nothing and is skipped: the range recorded for
\* a column is the one the rows holding a sample in that column give, whatever
\* the other columns hold.
C10_MissingSkipped ==
  /\ (ScanWasLast /\ Len(values) >= 1) => raised = NoException
  /\ Extracted =>
       \A a \in DOMAIN first.val :
         first.val[a] = ScanRows(WithoutMissing(ColOf(a)), ColOf(a), 1, Sentinel)

\* C10 witness: an extracted two-attribute table whose first row lacks the HP
\* cell, whose second row holds it, and whose Torque column is sampled.
C10_Witness ==
  /\ Extracted /\ Len(perf_attrs) = 2 /\ Len(values) >= 2
  /\ values[1][2] = NaN /\ values[2][2] # NaN
  /\ first.val["HP"].min[2] = values[2][1]
  /\ first.val["Torque"] # Sentinel

====
